---- MODULE Spec2Model ----
(***************************************************************************)
(* A model of the shared-state orchestration used by the request handlers  *)
(* of app.py: sessions with sliding refresh, the login rate limiter, the    *)
(* read-through history cache, the priority task queue, the websocket      *)
(* connection registry and the background session sweep.                    *)
(*                                                                         *)
(* The handlers are coroutines on one asyncio event loop: the code between  *)
(* two awaits runs atomically, and every await that reaches a remote        *)
(* service is a point where other handlers may run.  Each handler is a      *)
(* small process (req[r].pc, ws[h].pc, sweepPc) with one action per         *)
(* atomic segment.                                                          *)
(*                                                                         *)
(* redis_manager, redis_storage, database, chatbot and session_config are   *)
(* imported by app.py but are not part of the sources at hand; their        *)
(* operations are modelled from the design document (sections 4.1 - 4.6).   *)
(***************************************************************************)
EXTENDS Integers, Sequences, FiniteSets, TLC

\* ------------------------------------------------------------------ bounds
MaxTime == 4          \* the clock runs 0 .. MaxTime
MaxLifetime == 4      \* SESSION_LIFETIME is drawn from 2 .. MaxLifetime
MaxAttempts == 3      \* check_rate_limit calls per client and window
MaxRate == 2          \* max_requests is drawn from 1 .. MaxRate
MaxWindow == 2        \* the window length is drawn from 1 .. MaxWindow
MaxRows == 4          \* rows of chat history per user
MaxVideos == 1        \* uploaded videos per /send_message
MaxTasks == 4         \* tasks in the queue
MaxFiles == 1         \* file ids given to uploaded videos
MaxConns == 3         \* websocket connections over the life of the process
MaxInterval == 2      \* SESSION_CLEANUP_INTERVAL is drawn from 1 .. MaxInterval

\* ------------------------------------------------------------ value sets
Keys == {"s1"}                       \* tokens secrets.token_urlsafe can yield
Forged == "s0"                       \* a token no login has ever issued
NoCookie == "-"                      \* request.cookies.get gives None
Cookies == Keys \cup {Forged, NoCookie}
Users == {"u1", "u2"}
Clients == {"h1", "h2"}              \* request.client.host
Reqs == {1, 2}                       \* request handlers in flight at once
ClientIds == {"c1", "c2"}            \* the client_id of /ws/{client_id}
Conns == 1 .. MaxConns               \* the WebSocket objects, in order of arrival
NoConn == 0

\* What a read of the session store may give:
\*   ok       the record under the key, or none
\*   noid     a dict without 'id' (a malformed record, handed on as it is)
\*   notdict  a value that is no dict (a malformed record, handed on as it is)
\*   empty    an empty dict
\*   invalid  no session: the read failed, or the record was found malformed
\*   raise    the failure of the read, raised to the caller
StoreModes == {"ok", "noid", "notdict", "empty", "invalid", "raise"}
Faults == {"invalid", "raise"}
Malformed == {"noid", "notdict", "empty"}

VARIABLES
    now,         \* time.time(), in units of the model clock
    lifetime,    \* session_config.SESSION_LIFETIME
    threshold,   \* session_config.SESSION_REFRESH_THRESHOLD
    sessions,    \* the session records of the key-value store
    issued,      \* the session ids login_post has generated
    rateMax,     \* the rate limiter's max_requests
    rateWindow,  \* the rate limiter's window
    rate,        \* the rate-limit counter of ("login", client)
    req,         \* the request handlers: position and locals
    track,       \* history: per session key, what has happened to it
    lastV,       \* event: the validation get_current_user made in this step
    lastW,       \* event: the rewrite of a session record refresh made in this step
    resp,        \* event: the response login_post gave in this step
    passed,      \* history: login attempts let through, per client, this window
    recent,      \* history: the same per instant, for the last rateWindow + 1 instants
    counting,    \* whether the history recent is kept in this specification
    cache,       \* the cache entries: <<kind, user>> -> history, or NoValue
    dbChat,      \* database: the rows of chat history per user (their number)
    dbVideo,     \* database: the rows of video analysis history per user
    queue,       \* the task queue: the tasks enqueued and not yet claimed
    seqno,       \* the task queue's sequence number
    files,       \* redis_storage: the file ids stored
    nfiles,      \* the uuid4 file ids handed out so far
    order,       \* history: the priorities, in the order their enqueue completed
    floor,       \* history: per <<kind, user>>, the rows behind the latest invalidation
    lastHit,     \* event: the cache hit a history endpoint served in this step
    active_connections,  \* ConnectionManager.active_connections
    ws,          \* the websocket_endpoint handlers: position and locals
    newest,      \* history: per client id, the handle registered last
    superseded,  \* history: the handles another handle has replaced
    lastSend,    \* event: the send_json manager.send_message started in this step
    interval,    \* session_config.SESSION_CLEANUP_INTERVAL
    sweepPc,     \* the cleanup_sessions task: off, ready, awaiting, sleeping, dead
    sweeps,      \* the calls of cleanup_expired_sessions in progress
    sleepUntil,  \* when the task's asyncio.sleep is over
    sweepStart,  \* history: when the latest sweep started
    started,     \* history: the sweeps started so far
    sweepFailed  \* history: a sweep has raised

sessionVars == <<now, lifetime, threshold, sessions, issued>>
rateVars == <<rateMax, rateWindow, rate, passed, recent, counting>>
histVars == <<track, lastV, lastW, resp>>
cacheVars == <<cache, dbChat, dbVideo, floor, lastHit>>
queueVars == <<queue, seqno, files, nfiles, order>>
connVars == <<active_connections, ws, newest, superseded, lastSend>>
sweepVars == <<interval, sweepPc, sweeps, sleepUntil, sweepStart, started, sweepFailed>>
vars == <<sessionVars, rateVars, req, histVars, cacheVars, queueVars, connVars, sweepVars>>

\* ----------------------------------------------------------- session store
Absent == [shape |-> "absent", id |-> "", last_refresh |-> 0, expires |-> 0]

\* The record login_post writes: {"id", "email", "last_refresh": time.time()},
\* stored with a time to live of SESSION_LIFETIME.
SessionData(u, t, life) ==
    [shape |-> "dict", id |-> u, last_refresh |-> t, expires |-> t + life]

\* A record the store no longer returns: its time to live has run out.
Expired(rec) == rec.shape # "absent" /\ now >= rec.expires

Live(k) == IF k \notin Keys \/ Expired(sessions[k]) THEN Absent ELSE sessions[k]

\* redis_manager.validate_session(session_id) -> (is_valid, session_data)
validate_session(k, mode) ==
    LET rec == Live(k) IN
    CASE mode = "raise" -> [raised |-> TRUE, valid |-> FALSE, data |-> Absent]
      [] mode = "invalid" -> [raised |-> FALSE, valid |-> FALSE, data |-> Absent]
      [] mode \in Malformed ->
            [raised |-> FALSE, valid |-> TRUE, data |-> [Absent EXCEPT !.shape = mode]]
      [] rec.shape = "absent" -> [raised |-> FALSE, valid |-> FALSE, data |-> Absent]
      [] OTHER -> [raised |-> FALSE, valid |-> TRUE, data |-> rec]

\* redis_manager.refresh_session(session_id) -> bool: the record is written
\* again with the same time to live and last_refresh = now; false when the
\* record no longer exists.  The result is [ok, raised, store].
refresh_session_upsert(k, mode) ==
    LET rec == Live(k) IN
    CASE mode \in Faults ->
            [ok |-> FALSE, raised |-> mode = "raise", store |-> sessions]
      [] k \notin Keys -> [ok |-> FALSE, raised |-> FALSE, store |-> sessions]
      [] OTHER ->
            [ok |-> TRUE, raised |-> FALSE,
             store |-> [sessions EXCEPT ![k] =
                          [rec EXCEPT !.shape = "dict", !.last_refresh = now,
                                      !.expires = now + lifetime]]]

refresh_session(k, mode) ==
    LET rec == Live(k) IN
    CASE mode \in Faults ->
            [ok |-> FALSE, raised |-> mode = "raise", store |-> sessions]
      [] rec.shape = "absent" -> [ok |-> FALSE, raised |-> FALSE, store |-> sessions]
      [] OTHER ->
            [ok |-> TRUE, raised |-> FALSE,
             store |-> [sessions EXCEPT ![k] =
                          [rec EXCEPT !.last_refresh = now, !.expires = now + lifetime]]]

\* redis_manager.set_session(session_id, data, ttl) -> bool
set_session(k, data, ok) ==
    [ok |-> ok, store |-> IF ok THEN [sessions EXCEPT ![k] = data] ELSE sessions]

\* redis_manager.delete_session(session_id): idempotent.
delete_session(k) == IF k \in Keys THEN [sessions EXCEPT ![k] = Absent] ELSE sessions

\* ------------------------------------------------------------------ cache
\* The keys f"chat_history:{user['id']}" and f"video_history:{user['id']}".
CacheKeys == {"chat", "video"} \X Users
NoValue == -1

\* A history is the list of the first n rows of the user; the model keeps n.
\* redis_manager.get_cache(key): the value, or none (also when the read fails).
get_cache(c, ok) == IF ok THEN cache[c] ELSE NoValue

\* redis_manager.set_cache(key, value): a failed write leaves the cache as it is.
set_cache(c, v, ok) == IF ok THEN [cache EXCEPT ![c] = v] ELSE cache

\* redis_manager.invalidate_cache(key): the key is gone when it returns.
invalidate_cache(c) == [cache EXCEPT ![c] = NoValue]

NoHit == [kind |-> "none", value |-> 0, floor |-> 0]

\* ------------------------------------------------------------- task queue
\* TaskPriority, as a rank: the lower, the sooner retrieved.
Rank(prio) == CASE prio = "HIGH" -> 0 [] prio = "MEDIUM" -> 1 [] OTHER -> 2

NewTask(type, prio, file, u) ==
    [type |-> type, prio |-> prio, seq |-> seqno + 1, file |-> file, user |-> u]

\* The tasks of q that are retrieved before a new task of priority prio.
Ahead(q, prio) == {i \in 1 .. Len(q) : Rank(q[i].prio) <= Rank(prio)}

AheadLifo(q, prio) == {i \in 1 .. Len(q) : Rank(q[i].prio) < Rank(prio)}

Insert(q, t, n) == SubSeq(q, 1, n) \o <<t>> \o SubSeq(q, n + 1, Len(q))

\* redis_manager.enqueue_task(task_type, payload, priority): the queue, kept
\* in retrieval order (priority rank, then sequence number), with the new
\* task in its place.
enqueue_task_lifo(q, t) == Insert(q, t, Cardinality(AheadLifo(q, t.prio)))

enqueue_task(q, t) == Insert(q, t, Cardinality(Ahead(q, t.prio)))

\* ------------------------------------------------------- get_current_user
\* The outcome of get_current_user up to its refresh (app.py, 163-193), given
\* the cookie, return_none and what validate_session gave: "none" (returns
\* None), "401" (raises HTTPException 401), "user" (returns session_data) or
\* "refresh" (awaits refresh_session, then returns session_data).  The
\* HTTPExceptions raised inside the try are caught by its except clause and
\* raised again as 401 "Authentication error".
get_current_user_noshape(k, rn, v) ==
    LET invalid == IF rn THEN "none" ELSE "401" IN
    CASE k = NoCookie -> invalid
      [] v.raised -> invalid
      [] ~v.valid \/ v.data.shape \in {"absent", "empty"} -> invalid
      [] v.data.shape = "notdict" -> invalid     \* .get raises, caught
      [] now - v.data.last_refresh > threshold -> "refresh"
      [] OTHER -> "user"

get_current_user_norefresh(k, rn, v) ==
    LET invalid == IF rn THEN "none" ELSE "401" IN
    CASE k = NoCookie -> invalid
      [] v.raised -> invalid
      [] ~v.valid \/ v.data.shape \in {"absent", "empty"} -> invalid
      [] v.data.shape # "dict" -> invalid
      [] OTHER -> "user"

get_current_user_always(k, rn, v) ==
    LET invalid == IF rn THEN "none" ELSE "401" IN
    CASE k = NoCookie -> invalid
      [] v.raised -> invalid
      [] ~v.valid \/ v.data.shape \in {"absent", "empty"} -> invalid
      [] v.data.shape # "dict" -> invalid
      [] OTHER -> "refresh"

get_current_user(k, rn, v) ==
    LET invalid == IF rn THEN "none" ELSE "401" IN
    CASE k = NoCookie -> invalid
      [] v.raised -> invalid
      [] ~v.valid \/ v.data.shape \in {"absent", "empty"} -> invalid
      [] v.data.shape # "dict" -> invalid
      [] now - v.data.last_refresh > threshold -> "refresh"
      [] OTHER -> "user"

\* What get_current_user gives once the awaited refresh_session is back: its
\* result is not looked at, and a raise is caught by the except clause.
after_refresh(rn, f) ==
    IF f.raised THEN (IF rn THEN "none" ELSE "401") ELSE "user"

\* ------------------------------------------------------- request handlers
Idle == [h |-> "none", pc |-> "idle", key |-> NoCookie, rn |-> FALSE,
         user |-> "", age |-> 0, client |-> "", val |-> 0, left |-> 0,
         dirty |-> {}, input |-> ""]

\* What a handler answers.  For /send_message, stale names the histories
\* ("chat", "video") the handler has added rows to without invalidating
\* their cache key afterwards.
NoResp == [h |-> "none", out |-> "", cookie |-> NoCookie, stale |-> {}]

InFlight(k) == {r \in Reqs : req[r].pc # "idle" /\ req[r].key = k}

\* A new request takes the first free slot (the slots are interchangeable).
Free(r) == req[r].pc = "idle" /\ \A o \in Reqs : o < r => req[o].pc # "idle"

\* What is known of a session key: whether login_post created it (made, at
\* born), whether logout deleted it, the time of its latest validation (last),
\* whether every gap between validations has been below the threshold and
\* nothing else has touched it (ok), and its first two validations when
\* nothing but sequential get_current_user calls has touched it (clean).
NoTrack == [made |-> FALSE, deleted |-> FALSE, born |-> 0, last |-> 0, ok |-> FALSE,
            clean |-> FALSE, n |-> 0, adv |-> 0,
            t1 |-> 0, ok1 |-> FALSE, r1 |-> FALSE,
            t2 |-> 0, ok2 |-> FALSE, r2 |-> FALSE, live2 |-> FALSE]

NoValidation == [rn |-> FALSE, result |-> "", input |-> "", kept |-> FALSE]

\* A call of refresh_session: who made it ("none" when it wrote nothing),
\* the age of the record it rewrote, and whether logout had deleted the key.
NoWrite == [by |-> "none", age |-> 0, late |-> FALSE]

Spoil(t) == [NoTrack EXCEPT !.made = t.made, !.deleted = t.deleted, !.born = t.born]

\* The state of the record a validation of key k meets.
InputClass(k, mode) ==
    CASE k = NoCookie -> "nocookie"
      [] mode \in Faults -> "fault"
      [] mode \in Malformed -> "malformed"
      [] k \notin Keys -> "never"
      [] sessions[k].shape = "absent" ->
            CASE ~track[k].made -> "never"
              [] track[k].deleted -> "deleted"
              [] OTHER -> "expired"
      [] OTHER -> "live"

\* track[k] after a validation of k with outcome d.
TrackValidation(r, k, mode, d) ==
    LET t == track[k]
        valid == d \in {"user", "refresh"}
        fault == mode # "ok"
        alone == InFlight(k) \ {r} = {}
        ok == t.ok /\ ~fault /\ now - t.last < threshold
        clean == t.clean /\ ~fault /\ alone /\ t.n < 2
        base == IF ok THEN [t EXCEPT !.ok = TRUE, !.last = now]
                ELSE [t EXCEPT !.ok = FALSE, !.last = 0]
        seen == CASE ~clean -> Spoil(base)
                  [] t.n = 0 -> [base EXCEPT !.n = 1, !.t1 = now, !.ok1 = valid,
                                             !.r1 = (d = "refresh")]
                  [] OTHER -> [base EXCEPT !.n = 2, !.t2 = now, !.ok2 = valid,
                                           !.r2 = (d = "refresh"),
                                           !.live2 = (Live(k).shape = "dict")]
    IN [seen EXCEPT !.ok = ok, !.last = base.last]

\* The slot of handler h once its get_current_user call is over with d.
Continue(h, k, u, d, nv) ==
    CASE h \in {"chat_history", "video_history"} /\ d = "user" ->
            [Idle EXCEPT !.h = h, !.pc = "ch_cache", !.key = k, !.user = u]
      [] h = "send_message" /\ d = "user" ->
            [Idle EXCEPT !.h = h, !.pc = "sm_body", !.key = k, !.user = u, !.left = nv]
      [] OTHER -> Idle

\* get_current_user from its first line to its return or to the await of
\* refresh_session (app.py, 163-186), called by handler h in slot r.
Validate(r, h, k, rn, mode, nv) ==
    LET v == validate_session(k, mode)
        d == get_current_user(k, rn, v)
        u == v.data.id
        t == IF k \in Keys THEN TrackValidation(r, k, mode, d) ELSE NoTrack
        nxt == IF d = "refresh"
               THEN [Idle EXCEPT !.h = h, !.pc = "gcu_refresh", !.key = k,
                                 !.rn = rn, !.user = u, !.left = nv,
                                 !.age = now - v.data.last_refresh]
               ELSE Continue(h, k, u, d, nv)
    IN  /\ req' = [req EXCEPT ![r] =
                     IF nxt.pc = "idle" THEN Idle
                     ELSE [nxt EXCEPT !.input = InputClass(k, mode)]]
        /\ lastV' = [rn |-> rn, result |-> d, input |-> InputClass(k, mode),
                     kept |-> t.ok]
        /\ track' = IF k \in Keys THEN [track EXCEPT ![k] = t] ELSE track
        /\ UNCHANGED <<connVars, sweepVars>>
        /\ lastW' = NoWrite
        /\ resp' = NoResp
        /\ lastHit' = NoHit
        /\ UNCHANGED <<sessionVars, rateVars, cache, dbChat, dbVideo, floor, queueVars>>

\* A call of get_current_user(request, return_none) on its own.
GetCurrentUser(r, k, rn, mode) ==
    /\ Free(r)
    /\ Validate(r, "gcu", k, rn, mode, 0)

\* The awaited refresh_session of get_current_user and its return (186-193).
GcuRefresh(r, mode) ==
    LET q == req[r]
        k == q.key
        f == refresh_session(k, mode)
        d == after_refresh(q.rn, f)
        t == track[k]
    IN  /\ q.pc = "gcu_refresh"
        /\ sessions' = f.store
        /\ req' = [req EXCEPT ![r] =
                     LET nxt == Continue(q.h, k, q.user, d, q.left) IN
                     IF nxt.pc = "idle" THEN Idle ELSE [nxt EXCEPT !.input = q.input]]
        /\ UNCHANGED <<connVars, sweepVars>>
        /\ lastW' = [by |-> IF f.ok THEN "get_current_user" ELSE "none",
                     age |-> IF f.ok THEN q.age ELSE 0,
                     late |-> k \in Keys /\ t.deleted]
        /\ lastV' = NoValidation
        /\ resp' = NoResp
        /\ track' = IF k \notin Keys THEN track
                    ELSE [track EXCEPT ![k] =
                            CASE mode # "ok" -> Spoil(t)
                              [] f.ok /\ t.clean -> [t EXCEPT !.adv = t.adv + 1]
                              [] OTHER -> t]
        /\ lastHit' = NoHit
        /\ UNCHANGED <<now, lifetime, threshold, issued, rateVars>>
        /\ UNCHANGED <<cache, dbChat, dbVideo, floor, queueVars>>

\* auth_status up to its call of get_current_user (app.py, 271-286 and
\* 295-312): without a cookie it answers at once; otherwise it awaits
\* refresh_session, whatever the age of the session.
AuthStatus(r, k, mode) ==
    LET f == refresh_session(k, mode)
        out == CASE k = NoCookie -> "200 no session"
                 [] f.raised -> "500 error"
                 [] ~f.ok -> "200 expired"
                 [] OTHER -> ""
    IN  /\ Free(r)
        /\ sessions' = IF k = NoCookie THEN sessions ELSE f.store
        /\ req' = [req EXCEPT ![r] =
                     IF out = ""
                     THEN [Idle EXCEPT !.h = "auth_status", !.pc = "gcu", !.key = k,
                                       !.rn = TRUE]
                     ELSE Idle]
        /\ UNCHANGED <<connVars, sweepVars>>
        /\ lastW' = [by |-> IF out = "" THEN "auth_status" ELSE "none",
                     age |-> IF out = "" THEN now - Live(k).last_refresh ELSE 0,
                     late |-> k \in Keys /\ track[k].deleted]
        /\ lastV' = NoValidation
        /\ resp' = NoResp
        /\ track' = IF k \in Keys
                    THEN [track EXCEPT ![k] =
                            [Spoil(@) EXCEPT !.ok = track[k].ok /\ mode = "ok",
                                             !.last = IF track[k].ok /\ mode = "ok"
                                                      THEN track[k].last ELSE 0]]
                    ELSE track
        /\ lastHit' = NoHit
        /\ UNCHANGED <<now, lifetime, threshold, issued, rateVars>>
        /\ UNCHANGED <<cache, dbChat, dbVideo, floor, queueVars>>

\* auth_status's get_current_user(request, return_none=True) (app.py, 286-294).
AuthStatusValidate(r, mode) ==
    /\ req[r].pc = "gcu"
    /\ Validate(r, req[r].h, req[r].key, req[r].rn, mode, 0)

\* logout (app.py, 256-269): no await, one step.
Logout(r, k) ==
    /\ Free(r)
    /\ sessions' = delete_session(k)
    /\ UNCHANGED <<connVars, sweepVars>>
    /\ lastV' = NoValidation /\ lastW' = NoWrite /\ resp' = NoResp
    /\ track' = IF k \in Keys
                THEN [track EXCEPT ![k] = [Spoil(@) EXCEPT !.deleted = TRUE]]
                ELSE track
    /\ lastHit' = NoHit
    /\ UNCHANGED <<now, lifetime, threshold, issued, rateVars, req>>
    /\ UNCHANGED <<cache, dbChat, dbVideo, floor, queueVars>>

\* ------------------------------------------------------------ rate limiter
NoCount == [win |-> -1, count |-> 0]

\* The calls counted for client c in the window that holds now: the counter's
\* key names the window, and its time to live is the window length.
Counted(c) == IF rate[c].win = now \div rateWindow THEN rate[c].count ELSE 0

\* redis_manager.check_rate_limit(action, client) -> bool, as a fixed-window
\* counter: increment, then allowed iff the new count is within max_requests.
check_rate_limit(c) ==
    LET n == Counted(c) + 1 IN
    [allowed |-> n <= rateMax,
     rate |-> [rate EXCEPT ![c] = [win |-> now \div rateWindow, count |-> n]]]

\* Whether login_post goes on to the identity provider (app.py, 203-207).
login_proceeds_unchecked(allowed) == TRUE

login_proceeds(allowed) == allowed

\* The attempts of client c that got past the limiter in the window of now.
Passed(c) == IF passed[c].win = now \div rateWindow THEN passed[c].count ELSE 0

LoginsInFlight == {r \in Reqs : req[r].pc = "login_user"}

\* login_post up to its first await (app.py, 196-221): the rate limit, then
\* sign_in_with_password, which gives a user, gives none or raises.  Every
\* exception, the 429 included, is caught at 249 and answered with status 400.
LoginStart(r, c, cred, u) ==
    LET chk == check_rate_limit(c)
        go == login_proceeds(chk.allowed)
        out == CASE ~go -> "400 too many login attempts"
                 [] cred = "none" -> "400 invalid credentials"
                 [] cred = "raise" -> "400 error"
                 [] OTHER -> ""
    IN  /\ Free(r)
        /\ Counted(c) < MaxAttempts
        /\ out = "" => Cardinality(issued) + Cardinality(LoginsInFlight) < Cardinality(Keys)
        /\ rate' = chk.rate
        /\ passed' = [passed EXCEPT ![c] =
                        [win |-> now \div rateWindow,
                         count |-> Passed(c) + (IF go THEN 1 ELSE 0)]]
        /\ recent' = IF counting
                     THEN [recent EXCEPT ![c][Len(recent[c])] = @ + (IF go THEN 1 ELSE 0)]
                     ELSE recent
        /\ req' = [req EXCEPT ![r] =
                     IF out = ""
                     THEN [Idle EXCEPT !.h = "login", !.pc = "login_user", !.user = u,
                                       !.client = c]
                     ELSE Idle]
        /\ resp' = IF out = "" THEN NoResp ELSE [NoResp EXCEPT !.h = "login", !.out = out]
        /\ UNCHANGED <<connVars, sweepVars>>
        /\ lastV' = NoValidation /\ lastW' = NoWrite
        /\ lastHit' = NoHit
        /\ UNCHANGED <<sessionVars, rateMax, rateWindow, counting, track>>
        /\ UNCHANGED <<cache, dbChat, dbVideo, floor, queueVars>>

\* The answer of login_post once set_session is back (app.py, 232-247): a
\* session that was not written raises, which the except clause answers
\* with status 400 and no cookie; otherwise "Login successful" with the
\* session id as the cookie.
login_response_unchecked(written, k) ==
    [NoResp EXCEPT !.h = "login", !.out = "200 login successful", !.cookie = k]

login_response(written, k) ==
    IF written
    THEN [NoResp EXCEPT !.h = "login", !.out = "200 login successful", !.cookie = k]
    ELSE [NoResp EXCEPT !.h = "login", !.out = "400 failed to create session"]

\* login_post from the return of get_user_by_email / create_user to its
\* response (app.py, 221-254): a fresh session id, set_session, the cookie.
LoginFinish(r, k, dbok, setok) ==
    LET q == req[r]
        s == set_session(k, SessionData(q.user, now, lifetime), setok)
    IN  /\ q.pc = "login_user"
        /\ k \in Keys \ issued
        /\ req' = [req EXCEPT ![r] = Idle]
        /\ IF ~dbok
           THEN /\ resp' = [NoResp EXCEPT !.h = "login", !.out = "400 error"]
                /\ UNCHANGED <<sessions, issued, track>>
           ELSE /\ sessions' = s.store
                /\ issued' = issued \cup {k}
                /\ resp' = login_response(s.ok, k)
                /\ track' = IF s.ok
                            THEN [track EXCEPT ![k] =
                                    [NoTrack EXCEPT !.made = TRUE, !.born = now,
                                       !.last = now, !.ok = TRUE, !.clean = TRUE]]
                            ELSE track
        /\ UNCHANGED <<connVars, sweepVars>>
        /\ lastV' = NoValidation /\ lastW' = NoWrite
        /\ lastHit' = NoHit
        /\ UNCHANGED <<now, lifetime, threshold, rateVars>>
        /\ UNCHANGED <<cache, dbChat, dbVideo, floor, queueVars>>

\* ------------------------------------------------------ history endpoints
Kind(h) == IF h = "video_history" THEN "video" ELSE "chat"

\* get_chat_history_endpoint / get_video_analysis_history_endpoint from the
\* call of get_current_user on (app.py, 322-324 and 339-341).
HistoryStart(r, h, k, mode) ==
    /\ Free(r)
    /\ Validate(r, h, k, FALSE, mode, 0)

\* ... the cache lookup (app.py, 328-335): a cached history that is not
\* empty is returned; otherwise the database is asked.
HistoryCache(r, ok) ==
    LET q == req[r]
        c == <<Kind(q.h), q.user>>
        v == get_cache(c, ok)
        hit == v # NoValue /\ v # 0
    IN  /\ q.pc = "ch_cache"
        /\ req' = [req EXCEPT ![r] = IF hit THEN Idle ELSE [q EXCEPT !.pc = "ch_query"]]
        /\ lastHit' = IF hit THEN [kind |-> Kind(q.h), value |-> v, floor |-> floor[c]]
                      ELSE NoHit
        /\ UNCHANGED <<connVars, sweepVars>>
        /\ lastV' = NoValidation /\ lastW' = NoWrite /\ resp' = NoResp
        /\ UNCHANGED <<sessionVars, rateVars, track, queueVars>>
        /\ UNCHANGED <<cache, dbChat, dbVideo, floor>>

\* ... the database answers get_chat_history / get_video_analysis_history
\* while the handler is suspended in its await (app.py, 335).
HistoryQuery(r) ==
    LET q == req[r] IN
    /\ q.pc = "ch_query"
    /\ req' = [req EXCEPT ![r] =
                 [q EXCEPT !.pc = "ch_set",
                           !.val = IF Kind(q.h) = "chat" THEN dbChat[q.user]
                                   ELSE dbVideo[q.user]]]
    /\ UNCHANGED <<connVars, sweepVars>>
    /\ lastV' = NoValidation /\ lastW' = NoWrite /\ resp' = NoResp /\ lastHit' = NoHit
    /\ UNCHANGED <<sessionVars, rateVars, track, queueVars>>
    /\ UNCHANGED <<cache, dbChat, dbVideo, floor>>

\* ... the handler resumes with the history, caches it and answers
\* (app.py, 336-337).
HistorySet(r, ok) ==
    LET q == req[r] IN
    /\ q.pc = "ch_set"
    /\ cache' = set_cache(<<Kind(q.h), q.user>>, q.val, ok)
    /\ req' = [req EXCEPT ![r] = Idle]
    /\ UNCHANGED <<connVars, sweepVars>>
    /\ lastV' = NoValidation /\ lastW' = NoWrite /\ resp' = NoResp /\ lastHit' = NoHit
    /\ UNCHANGED <<sessionVars, rateVars, track, queueVars>>
    /\ UNCHANGED <<dbChat, dbVideo, floor>>

\* ----------------------------------------------------------- send_message
Senders == {r \in Reqs : req[r].h = "send_message"}

RECURSIVE VideosLeft(_)
VideosLeft(S) ==
    IF S = {} THEN 0
    ELSE LET r == CHOOSE x \in S : TRUE IN req[r].left + VideosLeft(S \ {r})

Max(a, b) == IF a > b THEN a ELSE b

\* send_message's except clause (app.py, 481-483): HTTP 500.
Fail500(r) ==
    /\ req' = [req EXCEPT ![r] = Idle]
    /\ resp' = [NoResp EXCEPT !.h = "send_message", !.out = "500",
                              !.stale = req[r].dirty]

\* send_message from the call of get_current_user on (app.py, 421-426), with
\* nv uploaded videos.  The model stops taking messages when the history or
\* the queue would outgrow its bound.
SendMessageStart(r, k, mode, nv) ==
    /\ Free(r)
    /\ \A u \in Users : dbChat[u] + 2 * Cardinality(Senders) + 2 <= MaxRows
    /\ Len(queue) + 2 * VideosLeft(Senders) + 2 * nv <= MaxTasks
    /\ nfiles + VideosLeft(Senders) + nv <= MaxFiles
    /\ Validate(r, "send_message", k, FALSE, mode, nv)

\* ... the head of the loop over the videos (app.py, 429-445): the next
\* video is read, given a fresh file id, and its VIDEO_PROCESSING task is
\* enqueued before store_file is awaited; with no video left, the chatbot
\* is asked (471).
SmBody(r, ok) ==
    LET q == req[r]
        t == NewTask("VIDEO_PROCESSING", "HIGH", nfiles + 1, q.user)
    IN  /\ q.pc = "sm_body"
        /\ IF q.left = 0
           THEN /\ req' = [req EXCEPT ![r] = [q EXCEPT !.pc = "sm_chat"]]
                /\ resp' = NoResp
                /\ UNCHANGED queueVars
           ELSE /\ nfiles' = nfiles + 1
                /\ files' = files
                /\ IF ok
                   THEN /\ queue' = enqueue_task(queue, t)
                        /\ seqno' = seqno + 1
                        /\ order' = Append(order, t.prio)
                        /\ req' = [req EXCEPT ![r] =
                                     [q EXCEPT !.pc = "sm_store", !.val = nfiles + 1]]
                        /\ resp' = NoResp
                   ELSE /\ Fail500(r)
                        /\ UNCHANGED <<queue, seqno, order>>
        /\ UNCHANGED <<connVars, sweepVars>>
        /\ lastV' = NoValidation /\ lastW' = NoWrite /\ lastHit' = NoHit
        /\ UNCHANGED <<sessionVars, rateVars, track, cache, dbChat, dbVideo, floor>>

\* ... store_file is back (app.py, 445-446): true, false or a raise.  A
\* file that was not stored is skipped, its task left where it is.
SmStore(r, res) ==
    LET q == req[r] IN
    /\ q.pc = "sm_store"
    /\ CASE res = "stored" ->
              /\ files' = files \cup {q.val}
              /\ req' = [req EXCEPT ![r] = [q EXCEPT !.pc = "sm_analyze"]]
              /\ resp' = NoResp
         [] res = "failed" ->
              /\ files' = files
              /\ req' = [req EXCEPT ![r] =
                           [q EXCEPT !.pc = "sm_body", !.left = q.left - 1, !.val = 0]]
              /\ resp' = NoResp
         [] OTHER ->
              /\ files' = files
              /\ Fail500(r)
    /\ UNCHANGED <<connVars, sweepVars>>
    /\ lastV' = NoValidation /\ lastW' = NoWrite /\ lastHit' = NoHit
    /\ UNCHANGED <<sessionVars, rateVars, track, queue, seqno, nfiles, order>>
    /\ UNCHANGED <<cache, dbChat, dbVideo, floor>>

\* ... analyze_video is back (app.py, 446-463): the VIDEO_ANALYSIS task is
\* enqueued and insert_video_analysis awaited.
SmAnalyze(r, ok) ==
    LET q == req[r]
        t == NewTask("VIDEO_ANALYSIS", "MEDIUM", q.val, q.user)
    IN  /\ q.pc = "sm_analyze"
        /\ IF ok
           THEN /\ queue' = enqueue_task(queue, t)
                /\ seqno' = seqno + 1
                /\ order' = Append(order, t.prio)
                /\ req' = [req EXCEPT ![r] = [q EXCEPT !.pc = "sm_insert_video"]]
                /\ resp' = NoResp
           ELSE /\ Fail500(r)
                /\ UNCHANGED <<queue, seqno, order>>
        /\ UNCHANGED <<connVars, sweepVars>>
        /\ lastV' = NoValidation /\ lastW' = NoWrite /\ lastHit' = NoHit
        /\ UNCHANGED <<sessionVars, rateVars, track, cache, dbChat, dbVideo, floor>>
        /\ UNCHANGED <<files, nfiles>>

\* ... insert_video_analysis (app.py, 463-469), then the next video.
SmInsertVideo(r, ok) ==
    LET q == req[r] IN
    /\ q.pc = "sm_insert_video"
    /\ IF ok
       THEN /\ dbVideo' = [dbVideo EXCEPT ![q.user] = @ + 1]
            /\ req' = [req EXCEPT ![r] =
                         [q EXCEPT !.pc = "sm_body", !.left = q.left - 1, !.val = 0,
                                   !.dirty = @ \cup {"video"}]]
            /\ resp' = NoResp
       ELSE /\ Fail500(r)
            /\ UNCHANGED dbVideo
    /\ UNCHANGED <<connVars, sweepVars>>
    /\ lastV' = NoValidation /\ lastW' = NoWrite /\ lastHit' = NoHit
    /\ UNCHANGED <<sessionVars, rateVars, track, cache, dbChat, floor, queueVars>>

\* ... chatbot.send_message is back (app.py, 471-473).
SmChat(r, ok) ==
    LET q == req[r] IN
    /\ q.pc = "sm_chat"
    /\ IF ok
       THEN req' = [req EXCEPT ![r] = [q EXCEPT !.pc = "sm_insert1"]] /\ resp' = NoResp
       ELSE Fail500(r)
    /\ UNCHANGED <<connVars, sweepVars>>
    /\ lastV' = NoValidation /\ lastW' = NoWrite /\ lastHit' = NoHit
    /\ UNCHANGED <<sessionVars, rateVars, track, queueVars>>
    /\ UNCHANGED <<cache, dbChat, dbVideo, floor>>

\* ... insert_chat_message of the user's message (app.py, 473); val keeps
\* the number of rows the history has with it.
SmInsert1(r, ok) ==
    LET q == req[r] IN
    /\ q.pc = "sm_insert1"
    /\ IF ok
       THEN /\ dbChat' = [dbChat EXCEPT ![q.user] = @ + 1]
            /\ req' = [req EXCEPT ![r] =
                         [q EXCEPT !.pc = "sm_insert2", !.val = dbChat[q.user] + 1,
                                   !.dirty = @ \cup {"chat"}]]
            /\ resp' = NoResp
       ELSE /\ Fail500(r)
            /\ UNCHANGED dbChat
    /\ UNCHANGED <<connVars, sweepVars>>
    /\ lastV' = NoValidation /\ lastW' = NoWrite /\ lastHit' = NoHit
    /\ UNCHANGED <<sessionVars, rateVars, track, cache, dbVideo, floor, queueVars>>

\* ... insert_chat_message of the bot's answer (app.py, 474).
SmInsert2(r, ok) ==
    LET q == req[r] IN
    /\ q.pc = "sm_insert2"
    /\ IF ok
       THEN /\ dbChat' = [dbChat EXCEPT ![q.user] = @ + 1]
            /\ req' = [req EXCEPT ![r] = [q EXCEPT !.pc = "sm_invalidate",
                                                   !.dirty = @ \cup {"chat"}]]
            /\ resp' = NoResp
       ELSE /\ Fail500(r)
            /\ UNCHANGED dbChat
    /\ UNCHANGED <<connVars, sweepVars>>
    /\ lastV' = NoValidation /\ lastW' = NoWrite /\ lastHit' = NoHit
    /\ UNCHANGED <<sessionVars, rateVars, track, cache, dbVideo, floor, queueVars>>

\* ... the handler resumes, invalidates chat_history:<user> and answers
\* (app.py, 476-479); an invalidation that fails raises.
SmInvalidate(r, ok) ==
    LET q == req[r]
        c == <<"chat", q.user>>
    IN  /\ q.pc = "sm_invalidate"
        /\ IF ok
           THEN /\ cache' = invalidate_cache(c)
                /\ floor' = [floor EXCEPT ![c] = Max(@, q.val)]
                /\ req' = [req EXCEPT ![r] = Idle]
                /\ resp' = [NoResp EXCEPT !.h = "send_message", !.out = "200",
                                          !.stale = q.dirty \ {"chat"}]
           ELSE /\ Fail500(r)
                /\ UNCHANGED <<cache, floor>>
        /\ UNCHANGED <<connVars, sweepVars>>
        /\ lastV' = NoValidation /\ lastW' = NoWrite /\ lastHit' = NoHit
        /\ UNCHANGED <<sessionVars, rateVars, track, dbChat, dbVideo, queueVars>>

\* A producer's call of redis_manager.enqueue_task, as send_message makes
\* it at app.py 435 and 452, with any task type and priority.
Enqueue(type, prio, file, u, ok) ==
    /\ Len(queue) < MaxTasks
    /\ queue' = IF ok THEN enqueue_task(queue, NewTask(type, prio, file, u)) ELSE queue
    /\ seqno' = IF ok THEN seqno + 1 ELSE seqno
    /\ order' = IF ok THEN Append(order, prio) ELSE order
    /\ UNCHANGED <<connVars, sweepVars>>
    /\ lastV' = NoValidation /\ lastW' = NoWrite /\ lastHit' = NoHit /\ resp' = NoResp
    /\ UNCHANGED <<sessionVars, rateVars, track, req, files, nfiles>>
    /\ UNCHANGED <<cache, dbChat, dbVideo, floor>>

\* Time passes.  A handler is short against the unit of the clock: the clock
\* stands while a request is in flight.  The store drops the keys whose time
\* to live has run out: session records, and the counters of a past window.
Tick ==
    /\ now < MaxTime
    /\ \A r \in Reqs : req[r].pc = "idle"
    /\ now' = now + 1
    /\ sessions' = [k \in Keys |->
                      IF sessions[k].shape # "absent" /\ now + 1 >= sessions[k].expires
                      THEN Absent ELSE sessions[k]]
    /\ rate' = [c \in Clients |->
                  IF rate[c].win = (now + 1) \div rateWindow THEN rate[c] ELSE NoCount]
    /\ passed' = [c \in Clients |->
                    IF passed[c].win = (now + 1) \div rateWindow THEN passed[c] ELSE NoCount]
    /\ recent' = IF counting
                 THEN [c \in Clients |->
                         LET all == Append(recent[c], 0) IN
                         IF Len(all) <= rateWindow + 1 THEN all ELSE Tail(all)]
                 ELSE recent
    /\ UNCHANGED <<connVars, sweepVars>>
    /\ lastV' = NoValidation /\ lastW' = NoWrite /\ resp' = NoResp
    /\ lastHit' = NoHit
    /\ UNCHANGED <<lifetime, threshold, issued, rateMax, rateWindow, counting, req, track>>
    /\ UNCHANGED <<cache, dbChat, dbVideo, floor, queueVars>>

\* ------------------------------------------------------ websocket registry
NoHandler == [pc |-> "new", cid |-> "", via |-> NoConn]

NoSend == [cid |-> "", via |-> NoConn, newest |-> NoConn, result |-> ""]

\* ConnectionManager.connect after the accept (app.py, 118).
connect_keep_first(reg, cid, h) ==
    IF reg[cid] = NoConn THEN [reg EXCEPT ![cid] = h] ELSE reg

connect(reg, cid, h) == [reg EXCEPT ![cid] = h]

\* ConnectionManager.disconnect (app.py, 120-122).
disconnect(reg, cid) == [reg EXCEPT ![cid] = NoConn]

\* The handle ConnectionManager.send_message sends on, if any (app.py, 125-126).
send_target(reg, cid) == reg[cid]

\* What ConnectionManager.send_message returns (app.py, 124-126): it has no
\* return statement, so None, with or without a handle for the client id.
send_result(reg, cid) == IF reg[cid] = NoConn THEN "None" ELSE "None"

notConnVars == <<sessionVars, rateVars, req, histVars, cacheVars, queueVars, sweepVars>>

\* The except clauses of websocket_endpoint.  WebSocketDisconnect (149-150):
\* the client id is taken out of the registry and the handler ends.  Any
\* other exception (151-161): if the client id is registered, the error
\* message is sent on the registered handle, and the handler ends.
OnDisconnect(h) ==
    /\ active_connections' = disconnect(active_connections, ws[h].cid)
    /\ ws' = [ws EXCEPT ![h] = [@ EXCEPT !.pc = "closed", !.via = NoConn]]
    /\ lastSend' = NoSend

OnException(h) ==
    LET cid == ws[h].cid
        to == send_target(active_connections, cid)
    IN  /\ active_connections' = active_connections
        /\ ws' = [ws EXCEPT ![h] =
                    IF to = NoConn THEN [@ EXCEPT !.pc = "closed", !.via = NoConn]
                    ELSE [@ EXCEPT !.pc = "error_sending", !.via = to]]
        /\ lastSend' = IF to = NoConn THEN NoSend
                       ELSE [cid |-> cid, via |-> to, newest |-> newest[cid],
                             result |-> send_result(active_connections, cid)]

\* A client opens /ws/{client_id}: manager.connect awaits the accept (133, 117).
WsOpen(h, cid) ==
    /\ ws[h].pc = "new"
    /\ \A o \in Conns : o < h => ws[o].pc # "new"
    /\ ws' = [ws EXCEPT ![h] = [NoHandler EXCEPT !.pc = "accepting", !.cid = cid]]
    /\ lastSend' = NoSend
    /\ UNCHANGED <<active_connections, newest, superseded, notConnVars>>

\* The accept is over: the handle is registered under the client id (118).
WsAccept(h, res) ==
    LET cid == ws[h].cid
        old == active_connections[cid]
    IN  /\ ws[h].pc = "accepting"
        /\ CASE res = "ok" ->
                  /\ active_connections' = connect(active_connections, cid, h)
                  /\ ws' = [ws EXCEPT ![h] = [@ EXCEPT !.pc = "receiving"]]
                  /\ newest' = [newest EXCEPT ![cid] = h]
                  /\ superseded' = IF old = NoConn THEN superseded
                                   ELSE superseded \cup {old}
                  /\ lastSend' = NoSend
             [] res = "disconnect" -> OnDisconnect(h) /\ UNCHANGED <<newest, superseded>>
             [] OTHER -> OnException(h) /\ UNCHANGED <<newest, superseded>>
        /\ UNCHANGED notConnVars

\* receive_text is back with a text, a disconnect or another failure (136).
WsReceive(h, res) ==
    /\ ws[h].pc = "receiving"
    /\ CASE res = "ok" ->
              /\ ws' = [ws EXCEPT ![h] = [@ EXCEPT !.pc = "chatting"]]
              /\ lastSend' = NoSend
              /\ UNCHANGED active_connections
         [] res = "disconnect" -> OnDisconnect(h)
         [] OTHER -> OnException(h)
    /\ UNCHANGED <<newest, superseded, notConnVars>>

\* chatbot.send_message is back: manager.send_message looks the client id
\* up and awaits send_json on the handle found (138-148, 124-126).
WsChat(h, ok) ==
    LET cid == ws[h].cid
        to == send_target(active_connections, cid)
    IN  /\ ws[h].pc = "chatting"
        /\ IF ok
           THEN /\ ws' = [ws EXCEPT ![h] =
                           IF to = NoConn THEN [@ EXCEPT !.pc = "receiving"]
                           ELSE [@ EXCEPT !.pc = "sending", !.via = to]]
                /\ lastSend' = [cid |-> cid, via |-> to, newest |-> newest[cid],
                                result |-> send_result(active_connections, cid)]
                /\ UNCHANGED active_connections
           ELSE OnException(h)
        /\ UNCHANGED <<newest, superseded, notConnVars>>

\* send_json is back: the loop goes on, or the send has failed.
WsSent(h, res) ==
    /\ ws[h].pc = "sending"
    /\ CASE res = "ok" ->
              /\ ws' = [ws EXCEPT ![h] = [@ EXCEPT !.pc = "receiving", !.via = NoConn]]
              /\ lastSend' = NoSend
              /\ UNCHANGED active_connections
         [] res = "disconnect" -> OnDisconnect(h)
         [] OTHER -> OnException(h)
    /\ UNCHANGED <<newest, superseded, notConnVars>>

\* The error message's send_json is back, or has raised: the handler ends.
WsErrorSent(h) ==
    /\ ws[h].pc = "error_sending"
    /\ ws' = [ws EXCEPT ![h] = [@ EXCEPT !.pc = "closed", !.via = NoConn]]
    /\ lastSend' = NoSend
    /\ UNCHANGED <<active_connections, newest, superseded, notConnVars>>

\* ----------------------------------------------------- background sweep
\* Where the loop of cleanup_sessions is once it has called
\* cleanup_expired_sessions: it awaits the call (app.py, 74).
LoopAfterCallDetached == [pc |-> "sleeping", until |-> now + interval]

LoopAfterCall == [pc |-> "awaiting", until |-> sleepUntil]

\* Where the loop is when the awaited call has raised: nothing in the loop
\* catches, so the task ends (app.py, 73-75).
LoopAfterRaise == "dead"

notSweepVars == <<lifetime, threshold, issued, rateVars, req, histVars, cacheVars,
                  queueVars, connVars>>

\* startup_event (app.py, 67-77): asyncio.create_task(cleanup_sessions()).
Startup ==
    /\ sweepPc = "off"
    /\ sweepPc' = "ready"
    /\ UNCHANGED <<interval, sweeps, sleepUntil, sweepStart, started, sweepFailed>>
    /\ UNCHANGED <<now, sessions, notSweepVars>>

\* The loop calls cleanup_expired_sessions: at its start, and whenever the
\* sleep of SESSION_CLEANUP_INTERVAL is over (app.py, 73-75).
SweepBegin ==
    /\ sweepPc = "ready" \/ (sweepPc = "sleeping" /\ now >= sleepUntil)
    /\ sweeps' = sweeps + 1
    /\ sweepPc' = LoopAfterCall.pc
    /\ sleepUntil' = LoopAfterCall.until
    /\ sweepStart' = now
    /\ started' = started + 1
    /\ UNCHANGED <<interval, sweepFailed, now, sessions, notSweepVars>>

\* cleanup_expired_sessions is over, after any time: it has dropped what
\* was left of the expired sessions, or it has raised.
SweepEnd(ok) ==
    /\ sweeps > 0
    /\ sweeps' = sweeps - 1
    /\ sessions' = IF ok THEN [k \in Keys |-> Live(k)] ELSE sessions
    /\ sweepFailed' = (sweepFailed \/ ~ok)
    /\ IF sweepPc = "awaiting"
       THEN /\ sweepPc' = IF ok THEN "sleeping" ELSE LoopAfterRaise
            /\ sleepUntil' = IF ok THEN now + interval ELSE sleepUntil
       ELSE UNCHANGED <<sweepPc, sleepUntil>>
    /\ UNCHANGED <<interval, sweepStart, started, now, notSweepVars>>

\* --------------------------------------------------------- specifications
InitBase ==
    /\ now = 0
    /\ sessions = [k \in Keys |-> Absent]
    /\ issued = {}
    /\ rate = [c \in Clients |-> NoCount]
    /\ passed = [c \in Clients |-> NoCount]
    /\ recent = [c \in Clients |-> <<0>>]
    /\ req = [r \in Reqs |-> Idle]
    /\ track = [k \in Keys |-> NoTrack]
    /\ lastV = NoValidation
    /\ lastW = NoWrite
    /\ resp = NoResp
    /\ cache = [c \in CacheKeys |-> NoValue]
    /\ dbChat = [u \in Users |-> 0]
    /\ dbVideo = [u \in Users |-> 0]
    /\ floor = [c \in CacheKeys |-> 0]
    /\ lastHit = NoHit
    /\ queue = <<>>
    /\ seqno = 0
    /\ files = {}
    /\ nfiles = 0
    /\ order = <<>>
    /\ active_connections = [c \in ClientIds |-> NoConn]
    /\ ws = [h \in Conns |-> NoHandler]
    /\ newest = [c \in ClientIds |-> NoConn]
    /\ superseded = {}
    /\ lastSend = NoSend
    /\ sweepPc = "off"
    /\ sweeps = 0
    /\ sleepUntil = 0
    /\ sweepStart = 0
    /\ started = 0
    /\ sweepFailed = FALSE

\* Sessions: login, logout, validation and auth_status as time passes, for
\* every lifetime and every refresh threshold below it.
InitSession ==
    /\ InitBase
    /\ counting = FALSE
    /\ interval = 1
    /\ lifetime \in 2 .. MaxLifetime
    /\ threshold \in 1 .. (lifetime - 1)
    /\ rateMax = MaxRate
    /\ rateWindow = MaxWindow

NextSession ==
    \/ \E r \in Reqs, k \in Cookies, rn \in BOOLEAN, mode \in StoreModes :
          /\ Free(r)
          /\ k = NoCookie => mode = "ok"     \* the store is not asked
          /\ GetCurrentUser(r, k, rn, mode)
    \/ \E r \in Reqs, mode \in {"ok"} \cup Faults : GcuRefresh(r, mode)
    \/ \E r \in Reqs, k \in Cookies, mode \in {"ok"} \cup Faults :
          /\ Free(r)
          /\ k = NoCookie => mode = "ok"     \* the store is not asked
          /\ AuthStatus(r, k, mode)
    \/ \E r \in Reqs, mode \in StoreModes : AuthStatusValidate(r, mode)
    \/ \E r \in Reqs, k \in Cookies : Logout(r, k)
    \/ \E r \in Reqs : LoginStart(r, "h1", "user", "u1")
    \/ \E r \in Reqs, k \in Keys, dbok \in BOOLEAN, setok \in BOOLEAN :
          LoginFinish(r, k, dbok, setok)
    \/ Tick

SpecSession == InitSession /\ [][NextSession]_vars

\* The rate limiter: login attempts of two clients as the windows roll over,
\* for every max_requests and window length within the bounds.
InitRate ==
    /\ InitBase
    /\ counting = FALSE
    /\ interval = 1
    /\ lifetime = MaxLifetime
    /\ threshold = 1
    /\ rateMax \in 1 .. MaxRate
    /\ rateWindow \in 1 .. MaxWindow

NextRate ==
    \/ \E r \in Reqs, c \in Clients, cred \in {"user", "none", "raise"}, u \in Users :
          LoginStart(r, c, cred, u)
    \/ \E r \in Reqs, k \in Keys, dbok \in BOOLEAN, setok \in BOOLEAN :
          LoginFinish(r, k, dbok, setok)
    \/ Tick

SpecRate == InitRate /\ [][NextRate]_vars

\* Bursts: the login attempts of one client, with good and bad passwords,
\* counted instant by instant as the windows roll over.
InitBurst ==
    /\ InitBase
    /\ counting = TRUE
    /\ interval = 1
    /\ lifetime = MaxLifetime
    /\ threshold = 1
    /\ rateMax \in 1 .. MaxRate
    /\ rateWindow \in 1 .. MaxWindow

NextBurst ==
    \/ \E r \in Reqs, cred \in {"user", "none"} : LoginStart(r, "h1", cred, "u1")
    \/ \E r \in Reqs, k \in Keys : LoginFinish(r, k, TRUE, TRUE)
    \/ Tick

SpecBurst == InitBurst /\ [][NextBurst]_vars

\* The history cache: one user logs in; /chat_history and /send_message
\* (without videos) run against each other.  The clock stands.
InitCache ==
    /\ InitBase
    /\ counting = FALSE
    /\ interval = 1
    /\ lifetime = MaxLifetime
    /\ threshold = 1
    /\ rateMax = MaxRate
    /\ rateWindow = MaxWindow

NextCache ==
    \/ \E r \in Reqs : LoginStart(r, "h1", "user", "u1")
    \/ \E r \in Reqs, k \in Keys : LoginFinish(r, k, TRUE, TRUE)
    \/ \E r \in Reqs, k \in Keys \cup {Forged} : HistoryStart(r, "chat_history", k, "ok")
    \/ \E r \in Reqs, ok \in BOOLEAN : HistoryCache(r, ok)
    \/ \E r \in Reqs : HistoryQuery(r)
    \/ \E r \in Reqs, ok \in BOOLEAN : HistorySet(r, ok)
    \/ \E r \in Reqs, k \in Keys \cup {Forged} : SendMessageStart(r, k, "ok", 0)
    \/ \E r \in Reqs, ok \in BOOLEAN : SmBody(r, ok)
    \/ \E r \in Reqs, ok \in BOOLEAN : SmChat(r, ok)
    \/ \E r \in Reqs, ok \in BOOLEAN : SmInsert1(r, ok)
    \/ \E r \in Reqs, ok \in BOOLEAN : SmInsert2(r, ok)
    \/ \E r \in Reqs, ok \in BOOLEAN : SmInvalidate(r, ok)

SpecCache == InitCache /\ [][NextCache]_vars

\* The task queue: producers enqueue tasks of every type and priority.
NextQueue ==
    \E type \in {"VIDEO_PROCESSING", "VIDEO_ANALYSIS"}, prio \in {"HIGH", "MEDIUM", "LOW"},
       ok \in BOOLEAN :
          Enqueue(type, prio, 0, "u1", ok)

SpecQueue == InitCache /\ [][NextQueue]_vars

\* The connection registry: websocket clients come, talk and go.
NextConn ==
    \/ \E h \in Conns, cid \in ClientIds : WsOpen(h, cid)
    \/ \E h \in Conns, res \in {"ok", "disconnect", "error"} : WsAccept(h, res)
    \/ \E h \in Conns, res \in {"ok", "disconnect", "error"} : WsReceive(h, res)
    \/ \E h \in Conns, ok \in BOOLEAN : WsChat(h, ok)
    \/ \E h \in Conns, res \in {"ok", "disconnect", "error"} : WsSent(h, res)
    \/ \E h \in Conns : WsErrorSent(h)

SpecConn == InitCache /\ [][NextConn]_vars

\* The background sweep, for every cleanup interval within the bound, while
\* a user logs in and time passes.
InitSweep ==
    /\ InitBase
    /\ counting = FALSE
    /\ interval \in 1 .. MaxInterval
    /\ lifetime = 2
    /\ threshold = 1
    /\ rateMax = MaxRate
    /\ rateWindow = MaxWindow

NextSweep ==
    \/ Startup
    \/ SweepBegin
    \/ \E ok \in BOOLEAN : SweepEnd(ok)
    \/ \E r \in Reqs : LoginStart(r, "h1", "user", "u1")
    \/ \E r \in Reqs, k \in Keys : LoginFinish(r, k, TRUE, TRUE)
    \/ Tick

SpecSweep == InitSweep /\ [][NextSweep]_vars

\* /send_message with uploaded videos: one user logs in and out; requests
\* come with every cookie and every answer of the session store, and every
\* await of the handler can succeed or fail.  The clock stands.
NextSend ==
    \/ \E r \in Reqs : LoginStart(r, "h1", "user", "u1")
    \/ \E r \in Reqs, k \in Keys : LoginFinish(r, k, TRUE, TRUE)
    \/ \E r \in Reqs, k \in Cookies, mode \in StoreModes, nv \in 0 .. MaxVideos :
          SendMessageStart(r, k, mode, nv)
    \/ \E r \in Reqs, k \in Keys : Logout(r, k)
    \/ \E r \in Reqs, ok \in BOOLEAN : SmBody(r, ok)
    \/ \E r \in Reqs, res \in {"stored", "failed", "raise"} : SmStore(r, res)
    \/ \E r \in Reqs, ok \in BOOLEAN : SmAnalyze(r, ok)
    \/ \E r \in Reqs, ok \in BOOLEAN : SmInsertVideo(r, ok)
    \/ \E r \in Reqs, ok \in BOOLEAN : SmChat(r, ok)
    \/ \E r \in Reqs, ok \in BOOLEAN : SmInsert1(r, ok)
    \/ \E r \in Reqs, ok \in BOOLEAN : SmInsert2(r, ok)
    \/ \E r \in Reqs, ok \in BOOLEAN : SmInvalidate(r, ok)

SpecSend == InitCache /\ [][NextSend]_vars

\* ------------------------------------------------------ claims: sessions
Valid(d) == d \in {"user", "refresh"}

\* C2, as stated: for every lifetime and every threshold below it, a session
\* validated with every gap (creation to first validation included) below
\* the threshold is valid at each of those validations.
C2_TouchedSessionStaysValid == lastV.kept => Valid(lastV.result)

\* C2, amended: the same, for a threshold of at most half the lifetime.
C2_TouchedSessionStaysValidHalf ==
    (lastV.kept /\ 2 * threshold <= lifetime) => Valid(lastV.result)

\* A session kept alive past its first lifetime by validations alone.
C2_Witness ==
    /\ lastV.kept /\ 2 * threshold <= lifetime /\ Valid(lastV.result)
    /\ \E k \in Keys : track[k].ok /\ track[k].last = now
                         /\ now >= track[k].born + lifetime

\* C3: validating a key that was never created or was deleted, a malformed
\* record, or a key whose read fails gives the invalid outcome: None with
\* return_none, else HTTP 401; nothing else comes out of get_current_user.
C3_InvalidKeyIsInvalid ==
    /\ lastV.result \in {"", "none", "401", "user", "refresh"}
    /\ lastV.input \in {"never", "deleted", "malformed", "fault"}
          => lastV.result = (IF lastV.rn THEN "none" ELSE "401")

C3_Witness ==
    \/ lastV.input = "deleted" /\ lastV.result = "401"
    \/ lastV.input = "malformed" /\ lastV.result = "none"

\* The scenario of C7 for key k: created, then nothing but two calls of
\* get_current_user one after the other, both over, the first one past the
\* refresh threshold and before the lifetime has run out.
C7_Scenario(k) ==
    /\ track[k].clean /\ track[k].n = 2 /\ InFlight(k) = {}
    /\ track[k].t1 - track[k].born > threshold
    /\ track[k].t1 - track[k].born < lifetime

C7_Outcome(k) ==
    /\ track[k].ok1 /\ track[k].r1
    /\ track[k].ok2 /\ ~track[k].r2
    /\ track[k].adv = 1

\* C7, as stated: with the second validation anywhere before expiry, the
\* first refreshes and is valid, the second is valid and does not refresh,
\* and last_refresh has advanced exactly once.
C7_RefreshExactlyOnce ==
    \A k \in Keys : (C7_Scenario(k) /\ track[k].live2) => C7_Outcome(k)

\* C7, amended: the same with the second validation no later than the
\* refresh threshold after the first.
C7_RefreshExactlyOnceWithinThreshold ==
    \A k \in Keys :
        (C7_Scenario(k) /\ track[k].t2 - track[k].t1 <= threshold) => C7_Outcome(k)

C7_Witness ==
    \E k \in Keys : /\ C7_Scenario(k) /\ C7_Outcome(k)
                    /\ track[k].t2 > track[k].t1
                    /\ sessions[k].last_refresh = track[k].t1

\* C10: a validation rewrites the session record only when
\* now - last_refresh > refresh threshold.
C10_RefreshOnlyPastThreshold == lastW.by # "none" => lastW.age > threshold

\* C18: a session deleted by logout and not created again is never valid
\* again: a refresh_session that get_current_user or auth_status makes
\* after the delete does not write the record back, and no later
\* validation meets a live record.
C18_DeletedStaysInvalid ==
    (\E k \in Keys : track[k].deleted) =>
        /\ \A k \in Keys : track[k].deleted => sessions[k].shape = "absent"
        /\ lastW.late => lastW.by = "none"
        /\ lastV.input # "" => lastV.input # "live" /\ ~Valid(lastV.result)

\* The refresh of a get_current_user call that validated the session before
\* the logout has run after it.
C18_Witness ==
    /\ lastW.late /\ lastW.by = "none"
    /\ \E k \in Keys : track[k].deleted /\ sessions[k].shape = "absent"

\* -------------------------------------------------- claims: rate limiter
Min(a, b) == IF a < b THEN a ELSE b

\* C4: for every client, of the login attempts made in the current window
\* the first max_requests got past the limiter and every later one was
\* rejected, whatever the interleaving; after the window has rolled over the
\* count starts again, so the first attempt is let through.
C4_AtMostMaxPerWindow ==
    \A c \in Clients : Passed(c) = Min(Counted(c), rateMax)

\* A client rejected in a window after the first, having been let through
\* max_requests times in it.
C4_Witness ==
    \E c \in Clients : /\ rate[c].win >= 1
                       /\ Counted(c) = rateMax + 1
                       /\ Passed(c) = rateMax
                       /\ resp.out = "400 too many login attempts"

RECURSIVE Sum(_)
Sum(q) == IF q = <<>> THEN 0 ELSE Head(q) + Sum(Tail(q))

\* C15: the login attempts of one client let through in any interval of
\* length rateWindow (the instants t .. t + rateWindow), even one that
\* straddles a window boundary, are at most 2 * max_requests.
C15_AtMostTwiceMaxAcrossBoundary ==
    \A c \in Clients : Sum(recent[c]) <= 2 * rateMax

\* Twice max_requests let through within one such interval: max_requests
\* at the end of a window and max_requests in the next.
C15_Witness ==
    \E c \in Clients : /\ Sum(recent[c]) = 2 * rateMax
                       /\ Passed(c) = rateMax
                       /\ rateMax = MaxRate /\ rateWindow = MaxWindow
                       /\ Len(recent[c]) = rateWindow + 1

\* ----------------------------------------------------------- claims: cache
\* C1: once a writer's invalidate_cache(key) has returned, no get_cache(key)
\* of a reader returns a history computed before that writer's mutation: a
\* chat history served from the cache holds at least the rows that were
\* there with the first insert of every /send_message whose invalidation
\* has returned.
C1_NoStaleReadAfterInvalidate ==
    lastHit.kind = "chat" => lastHit.value >= lastHit.floor

\* ----------------------------------------------------- claims: task queue
Before(a, b) ==
    \/ Rank(a.prio) < Rank(b.prio)
    \/ Rank(a.prio) = Rank(b.prio) /\ a.seq < b.seq

Prios(q) == [i \in 1 .. Len(q) |-> q[i].prio]

\* C5: the tasks are retrievable priority first and, within a priority, in
\* the order their enqueue calls completed; enqueuing low, high, medium and
\* then high gives high, high, medium, low, the earlier high first.
C5_PriorityThenFifo ==
    /\ \A i, j \in 1 .. Len(queue) : i < j => Before(queue[i], queue[j])
    /\ \A i \in 1 .. Len(queue) : order[queue[i].seq] = queue[i].prio
    /\ Len(queue) = Len(order)
    /\ order = <<"LOW", "HIGH", "MEDIUM", "HIGH">>
          => /\ Prios(queue) = <<"HIGH", "HIGH", "MEDIUM", "LOW">>
             /\ queue[1].seq = 2 /\ queue[2].seq = 4

C5_Witness ==
    /\ order = <<"LOW", "HIGH", "MEDIUM", "HIGH">>
    /\ Prios(queue) = <<"HIGH", "HIGH", "MEDIUM", "LOW">>

\* ------------------------------------------------------- claims: registry
\* C6: the registry maps a client id to at most one handle, the one
\* registered last; every send_json that manager.send_message starts for a
\* client id goes to the handle registered last for it, never to a handle
\* that has been replaced.
C6_SendOnlyViaNewest ==
    /\ \A c \in ClientIds : active_connections[c] \in {NoConn, newest[c]}
    /\ lastSend.via # NoConn =>
          /\ lastSend.via = lastSend.newest
          /\ lastSend.via \notin superseded

\* A send for a client id whose earlier connection is still open.
C6_Witness ==
    /\ lastSend.via # NoConn
    /\ \E h \in superseded : /\ ws[h].cid = lastSend.cid
                             /\ ws[h].pc \in {"receiving", "chatting", "sending"}
                             /\ h # lastSend.via

\* C14: manager.send_message for a client id without a registered handle
\* returns false, and for a registered id a result that differs from it.
C14_SendTellsWhetherDelivered ==
    lastSend.cid # "" => (lastSend.result = "False" <=> lastSend.via = NoConn)

\* C16: a handle registered for a client id stays registered until its own
\* connection disconnects or another handle replaces it: a handler that is
\* registered, running and not replaced is the one the registry holds.
C16_RegisteredUntilOwnDisconnect ==
    \A h \in Conns :
        (ws[h].pc \in {"receiving", "chatting", "sending"} /\ h \notin superseded)
           => active_connections[ws[h].cid] = h

\* C17: every handle in the registry belongs to a handler that is still
\* running.
C17_RegistryHoldsRunningHandlers ==
    \A c \in ClientIds :
        active_connections[c] # NoConn => ws[active_connections[c]].pc # "closed"

\* ---------------------------------------------------------- claims: sweep
\* C8: the sweep loop keeps running after a failed sweep: once a call of
\* cleanup_expired_sessions has raised, the loop is still there to start
\* the next one.
C8_LoopSurvivesFailedSweep == sweepFailed => sweepPc # "dead"

\* C9: at most one call of cleanup_expired_sessions is in progress at any
\* time, however long a sweep takes against the interval.
C9_OneSweepAtATime == sweeps <= 1

\* A second or later sweep that has been running for longer than the interval.
C9_Witness == sweeps = 1 /\ started >= 2 /\ now > sweepStart + interval

\* --------------------------------------------------- claims: send_message
\* C11: every row /send_message adds to a user's chat or video history is
\* followed, before the handler finishes (with its answer or with an
\* error), by the invalidation of the cache key of that history.
C11_MutationsAreInvalidated == resp.h = "send_message" => resp.stale = {}

\* C19: every VIDEO_PROCESSING task in the queue names a file that was
\* stored (or whose store_file is still awaited), and every VIDEO_ANALYSIS
\* task names a file that was stored.
C19_TasksNameStoredFiles ==
    \A i \in 1 .. Len(queue) :
        \/ queue[i].file \in files
        \/ /\ queue[i].type = "VIDEO_PROCESSING"
           /\ \E r \in Reqs : req[r].pc = "sm_store" /\ req[r].val = queue[i].file

\* What /send_message shares with the other requests: the queue, the
\* files, the history tables and the invalidations made.
Shared == <<queue, seqno, files, nfiles, dbChat, dbVideo, floor>>

\* C20: every step that enqueues a task, stores a file, inserts a row or
\* invalidates a cache entry is taken by a /send_message handler whose
\* get_current_user call met a live session and gave its claims; a request
\* without a valid session changes none of these.
C20_NoEffectWithoutSession ==
    [][Shared' # Shared =>
          \E r \in Reqs : /\ req[r].h = "send_message"
                          /\ req[r].input = "live"
                          /\ req[r].user \in Users
                          /\ req'[r] # req[r]]_vars

\* A request without a valid session has been turned away after another
\* one has stored a file and added its rows.
C20_Witness ==
    /\ lastV.result = "401" /\ lastV.input \in {"never", "deleted", "malformed", "fault"}
    /\ files # {} /\ \E u \in Users : dbChat[u] > 0 /\ dbVideo[u] > 0

\* ------------------------------------------------------------ claims: login
\* C12: a login attempt the rate limiter rejects is answered with HTTP
\* status 429 "Too many login attempts", without a session cookie.
C12_RejectedLoginIs429 ==
    resp.out \in {"400 too many login attempts", "429 too many login attempts"}
       => resp.out = "429 too many login attempts" /\ resp.cookie = NoCookie

\* C13: when set_session returns false the login answers with a failure and
\* without a cookie; "Login successful" and the session cookie come together
\* and only for a session key whose record is in the store.
C13_CookieOnlyForWrittenSession ==
    /\ resp.out = "400 failed to create session" => resp.cookie = NoCookie
    /\ resp.out = "200 login successful" => resp.cookie \in Keys
    /\ resp.cookie # NoCookie =>
          /\ resp.h = "login" /\ resp.out = "200 login successful"
          /\ resp.cookie \in Keys
          /\ sessions[resp.cookie].shape = "dict"
          /\ sessions[resp.cookie].id \in Users
          /\ sessions[resp.cookie].last_refresh = now

\* A login whose session write failed: answered with a failure, no cookie,
\* no record.
C13_Witness ==
    /\ resp.out = "400 failed to create session" /\ resp.cookie = NoCookie
    /\ \A k \in Keys : sessions[k].shape = "absent"
    /\ issued # {}

====
